---------------------------- MODULE Spec2Model ----------------------------
(***************************************************************************)
(* Probing datasets with subword alignment (probing/data/                  *)
(* sentence_probe_data.py): raw sample extraction, indexing, batching.     *)
(*                                                                         *)
(* Python lists are modelled as sequences; a Python index i is the TLA+    *)
(* index i + 1 (operator At).  Python None is the value None.              *)
(***************************************************************************)
EXTENDS Integers, Sequences, FiniteSets, TLC

VARIABLES
    variant,        \* which dataset class: "seq", "tok", "mid" or "emb"
    config,         \* self.config / constructor arguments
    is_unlabeled,   \* self.is_unlabeled
    stream,         \* the input stream given to load_stream
    raw,            \* self.raw
    all_idx,        \* the permutation np.random.shuffle drew for each line
    mtx,            \* self.mtx
    idx_calls,      \* number of to_idx calls so far: 0, 1, or 2 for two or more
    pc,             \* "new", "loaded", "indexed", "iter"
    batch_size,     \* argument of the running batched_iter
    starts,         \* batch starts the running batched_iter has still to serve
    yielded_starts, \* starts of the batches yielded by the running iteration
    yielded,        \* the batches yielded by the running iteration
    prev,           \* batch size and batches of the complete unshuffled
                    \* iteration that ended just before the running one
    model,          \* the model instance: its class, its state, its config
    cache,          \* self._cache of the model instance
    calls,          \* the forward calls made on the model instance, in order
    model_output,   \* the flat buffer handed to decode
    rows_read,      \* the rows of the buffer decode indexed, in order
    data_globals,   \* globals() of the data module: the tokenizers kept
    model_globals,  \* globals() of the models module: the encoders kept
    loads,          \* the objects the loaders returned, in order of invocation
    objects         \* the datasets and embedders constructed, in order

dataVars == <<variant, config, is_unlabeled, stream, raw, all_idx, mtx,
              idx_calls, pc, batch_size, starts, yielded_starts, yielded, prev>>

modelVars == <<model, cache, calls>>

decodeVars == <<model_output, rows_read>>

memoVars == <<data_globals, model_globals, loads, objects>>

vars == <<dataVars, modelVars, decodeVars, memoVars>>

-----------------------------------------------------------------------------
(* Bounds of the model *)

MaxWords == 3
MaxSamples == 3
MaxBatchSize == 3
MaxCalls == 3
MaxDecodeSamples == 2
MaxObjects == 4
NLayers == 2
HiddenSize == 2

(* Program constants *)

MaxSubwordLen == 500
PadTokenStart == 1000

\* Python None, for a label (a string), a count (an integer), a label list
None == "<None>"
NoneInt == 0 - 1
NoneList == <<>>

-----------------------------------------------------------------------------
(* Python helpers *)

At(s, i) == s[i + 1]

Range(s) == {s[i] : i \in 1..Len(s)}

\* s[a:b] for 0 <= a, Python slice semantics (b clipped to len(s))
Slice(s, a, b) ==
    LET e == IF b < Len(s) THEN b ELSE Len(s)
    IN  IF a >= e THEN <<>> ELSE [k \in 1..(e - a) |-> s[a + k]]

\* [x] * n
Repeat(x, n) == [k \in 1..n |-> x]

RECURSIVE Concat(_)
Concat(ss) == IF ss = <<>> THEN <<>> ELSE Head(ss) \o Concat(Tail(ss))

RECURSIVE MaxOf(_)
MaxOf(s) ==
    IF Len(s) = 1 THEN s[1]
    ELSE LET m == MaxOf(Tail(s)) IN IF s[1] >= m THEN s[1] ELSE m

\* all orders np.random.shuffle can leave a list in
Shuffles(s) ==
    {[k \in 1..Len(s) |-> s[f[k]]] :
        f \in {g \in [1..Len(s) -> 1..Len(s)] :
                 \A i, j \in 1..Len(s) : g[i] = g[j] => i = j}}

\* all sequences whose i-th element is drawn from the i-th set
RECURSIVE Product(_)
Product(sets) ==
    IF sets = <<>> THEN {<<>>}
    ELSE {<<x>> \o rest : x \in Head(sets), rest \in Product(Tail(sets))}

\* all sequences over S of length lo..hi
SeqsOf(S, lo, hi) == UNION {[1..n -> S] : n \in lo..hi}

-----------------------------------------------------------------------------
(* The external tokenizer: a fixed table over a small vocabulary of words. *)
(* "" is the empty word a doubled space leaves; "long" stands for a word   *)
(* the tokenizer splits into very many pieces.                             *)

Words == {"", "a", "bb", "long"}
TokWords == {"a", "bb", "long"}

MASK == "[MASK]"

LongPieces == MaxSubwordLen - 1

Tokenize(w) ==
    CASE w = ""     -> <<>>
      [] w = "a"    -> <<"a">>
      [] w = "bb"   -> <<"b", "##b">>
      [] w = "long" -> [k \in 1..LongPieces |-> IF k = 1 THEN "l" ELSE "##x"]

\* tokenizer.vocab with the constants the token vocabulary takes from it
SOS == 101
EOS == 102
PAD == 0
UNK == 100

TokenVocab(p) ==
    CASE p = "a"   -> 7
      [] p = "b"   -> 8
      [] p = "##b" -> 9
      [] p = "l"   -> 10
      [] p = "##x" -> 11
      [] p = MASK  -> 103
      [] OTHER     -> UNK

-----------------------------------------------------------------------------
(* SequenceClassificationWithSubwords: one blank-line-delimited block of   *)
(* "word [TAB label]" lines per sample.  A line of the stream is a record   *)
(* [blank, word, label]; label is None when the line has one field.        *)

BlankLine == [blank |-> TRUE, word |-> "", label |-> None]
WordLine(w, l) == [blank |-> FALSE, word |-> w, label |-> l]

RECURSIVE CreateLoop(_, _, _)
CreateLoop(lines, i, acc) ==
    IF i > Len(lines) THEN acc
    ELSE CreateLoop(lines, i + 1,
            [sent         |-> Append(acc.sent, lines[i].word),
             labels       |-> IF lines[i].label # None
                              THEN Append(acc.labels, lines[i].label)
                              ELSE acc.labels,
             token_starts |-> Append(acc.token_starts, Len(acc.subwords)),
             subwords     |-> acc.subwords \o Tokenize(lines[i].word)])

\* create_sentence_from_lines without line 337
create_sentence_no_sentinel(lines) ==
    LET acc == CreateLoop(lines, 1,
                 [sent |-> <<>>, labels |-> <<>>,
                  token_starts |-> <<>>, subwords |-> <<>>])
    IN  [raw_sentence         |-> acc.sent,
         labels               |-> IF Len(acc.labels) = 0 THEN NoneList ELSE acc.labels,
         sentence_len         |-> Len(acc.sent),
         tokens               |-> acc.subwords,
         sentence_subword_len |-> Len(acc.subwords),
         token_starts         |-> acc.token_starts]

create_sentence_from_lines(lines) ==
    LET acc == CreateLoop(lines, 1,
                 [sent |-> <<>>, labels |-> <<>>,
                  token_starts |-> <<>>, subwords |-> <<>>])
    IN  [raw_sentence         |-> acc.sent,
         labels               |-> IF Len(acc.labels) = 0 THEN NoneList ELSE acc.labels,
         sentence_len         |-> Len(acc.sent),
         tokens               |-> acc.subwords,
         sentence_subword_len |-> Len(acc.subwords),
         token_starts         |-> Append(acc.token_starts, Len(acc.subwords))]

SeqIgnoreSampleOff(sample) == sample.sentence_subword_len >= MaxSubwordLen

SeqIgnoreSample(sample) == sample.sentence_subword_len > MaxSubwordLen

\* "if self.max_samples and len(self.raw) >= self.max_samples"
MaxReached(max_samples, raw_) ==
    max_samples # NoneInt /\ max_samples # 0 /\ Len(raw_) >= max_samples

Keep(raw_, sample) ==
    IF SeqIgnoreSample(sample) THEN raw_ ELSE Append(raw_, sample)

\* the for loop of load_stream; st = [raw, sent], returned as the loop leaves it
RECURSIVE SeqLoadLoop(_, _, _, _)
SeqLoadLoop(lines, i, max_samples, st) ==
    IF i > Len(lines) THEN st
    ELSE IF lines[i].blank
         THEN IF st.sent # <<>>
              THEN LET r == Keep(st.raw, create_sentence_from_lines(st.sent))
                   IN  IF MaxReached(max_samples, r)
                       THEN [raw |-> r, sent |-> st.sent]
                       ELSE SeqLoadLoop(lines, i + 1, max_samples,
                                        [raw |-> r, sent |-> <<>>])
              ELSE SeqLoadLoop(lines, i + 1, max_samples,
                               [raw |-> st.raw, sent |-> <<>>])
         ELSE SeqLoadLoop(lines, i + 1, max_samples,
                          [raw |-> st.raw, sent |-> Append(st.sent, lines[i])])

SeqLoadStream(lines, max_samples) ==
    LET st == SeqLoadLoop(lines, 1, max_samples, [raw |-> <<>>, sent |-> <<>>])
    IN  IF st.sent # <<>> /\ (max_samples = NoneInt \/ Len(st.raw) < max_samples)
        THEN Keep(st.raw, create_sentence_from_lines(st.sent))
        ELSE st.raw

-----------------------------------------------------------------------------
(* SentenceProberDataset: one "sentence TAB target TAB index [TAB label]"  *)
(* line per sample.  A line is [raw_sent, raw_target, raw_idx, label] with *)
(* raw_sent the words raw_sent.split(" ") gives.                           *)

\* lines 458-464: per-word pieces, masked words replaced by one mask symbol
MaskedPiecesAbs(line, mask_positions, ti) ==
    IF ti \in mask_positions THEN <<MASK>> ELSE Tokenize(At(line.raw_sent, ti))

MaskedPieces(line, mask_positions, ti) ==
    IF (ti - line.raw_idx) \in mask_positions
    THEN <<MASK>>
    ELSE Tokenize(At(line.raw_sent, ti))

TokenizeWords(line, mask_positions) ==
    [k \in 1..Len(line.raw_sent) |-> MaskedPieces(line, mask_positions, k - 1)]

\* np.argsort of a permutation of 0..n-1: position of each value
Argsort(p) == [k \in 1..Len(p) |-> (CHOOSE j \in 1..Len(p) : p[j] = k - 1) - 1]

\* lines 481-483 with the offset recorded after the word is added
RECURSIVE MergeLoopAfter(_, _, _)
MergeLoopAfter(tokenized, i, acc) ==
    IF i > Len(tokenized) THEN acc
    ELSE MergeLoopAfter(tokenized, i + 1,
            [token_starts |-> Append(acc.token_starts,
                                     Len(acc.merged) + Len(tokenized[i])),
             merged       |-> acc.merged \o tokenized[i]])

\* lines 479-483: concatenate, recording the offset each word starts at
RECURSIVE MergeLoop(_, _, _)
MergeLoop(tokenized, i, acc) ==
    IF i > Len(tokenized) THEN acc
    ELSE MergeLoop(tokenized, i + 1,
            [token_starts |-> Append(acc.token_starts, Len(acc.merged)),
             merged       |-> acc.merged \o tokenized[i]])

\* the locals of extract_sample_from_line; perm is the order
\* np.random.shuffle leaves all_idx in (read only when config.bow)
ExtractLocals(line, cfg, perm) ==
    LET tokenized0 == TokenizeWords(line, cfg.mask_positions)
        tokenized  == IF cfg.bow
                      THEN [j \in 1..Len(tokenized0) |-> At(tokenized0, perm[j])]
                      ELSE tokenized0
        target_idx == IF cfg.bow THEN At(Argsort(perm), line.raw_idx)
                      ELSE line.raw_idx
        acc        == MergeLoop(tokenized, 1,
                                [token_starts |-> <<>>, merged |-> <<>>])
    IN  [tokenized    |-> tokenized,
         word_target  |-> target_idx,
         target_idx   |-> At(acc.token_starts, target_idx),
         merged       |-> acc.merged,
         token_starts |-> acc.token_starts]

\* line 491: target_idx=raw_idx
StoredTargetIdx(line, loc) == line.raw_idx

TokExtractSample(line, cfg, perm) ==
    LET loc == ExtractLocals(line, cfg, perm)
    IN  [raw_sentence |-> line.raw_sent,
         raw_target   |-> line.raw_target,
         raw_idx      |-> line.raw_idx,
         tokens       |-> loc.merged,
         num_tokens   |-> Len(loc.merged),
         target_idx   |-> StoredTargetIdx(line, loc),
         token_starts |-> loc.token_starts,
         label        |-> line.label]

\* lines 496-497: the body after "return False" is never run
TokIgnoreSample(sample) == FALSE

\* EmbeddingProberDataset.extract_sample_from_line
EmbExtractSample(line) ==
    [sentence        |-> line.raw_sent,
     target_word     |-> line.raw_target,
     target_word_idx |-> line.raw_idx,
     label           |-> line.label]

\* the characters of a word, and of a sentence joined by single spaces
Chars(w) ==
    CASE w = ""     -> <<>>
      [] w = "a"    -> <<"a">>
      [] w = "bb"   -> <<"b", "b">>
      [] w = "long" -> <<"l", "o", "n", "g">>

RECURSIVE JoinChars(_)
JoinChars(ws) ==
    IF ws = <<>> THEN <<>>
    ELSE IF Len(ws) = 1 THEN Chars(ws[1])
    ELSE Chars(ws[1]) \o <<" ">> \o JoinChars(Tail(ws))

RECURSIVE SumLen(_)
SumLen(ws) == IF ws = <<>> THEN 0 ELSE Len(Chars(Head(ws))) + SumLen(Tail(ws))

\* MidSentenceProberDataset.extract_sample_from_line
MidExtractSample(line, cfg) ==
    LET input == JoinChars(line.raw_sent)
        words == line.raw_sent
        before == SumLen(SubSeq(words, 1, line.raw_idx)) + line.raw_idx
    IN  [raw_sentence |-> line.raw_sent,
         raw_target   |-> line.raw_target,
         raw_idx      |-> line.raw_idx,
         input        |-> input,
         input_len    |-> Len(input),
         target_idx   |-> IF cfg.probe_first_char THEN before
                          ELSE before + Len(Chars(line.raw_target)) - 1,
         label        |-> line.label]

\* BaseDataset.load_stream: one sample per line, ignored samples left out
RECURSIVE BaseLoadLoop(_, _, _)
BaseLoadLoop(samples, i, raw_) ==
    IF i > Len(samples) THEN raw_
    ELSE BaseLoadLoop(samples, i + 1,
                      IF TokIgnoreSample(samples[i]) THEN raw_
                      ELSE Append(raw_, samples[i]))

-----------------------------------------------------------------------------
(* Indexing.  BaseDataset.to_idx rebuilds self.mtx from self.raw: symbol   *)
(* fields go through their vocabulary (the token field bracketed by the    *)
(* start and end markers), integer fields are copied.                      *)

RECURSIVE FirstSeen(_, _)
FirstSeen(s, seen) ==
    IF s = <<>> THEN seen
    ELSE FirstSeen(Tail(s), IF Head(s) \in Range(seen) THEN seen
                            ELSE Append(seen, Head(s)))

\* the label vocabulary: ids in first-seen order, None left as None
LabelVocab(var, raw_) ==
    IF var = "seq"
    THEN FirstSeen(Concat([i \in 1..Len(raw_) |-> raw_[i].labels]), <<>>)
    ELSE FirstSeen(SelectSeq([i \in 1..Len(raw_) |-> raw_[i].label],
                             LAMBDA l : l # None), <<>>)

LabelLookup(vocab, l) ==
    IF l = None THEN NoneInt
    ELSE (CHOOSE k \in 1..Len(vocab) : vocab[k] = l) - 1

TokenIds(tokens) ==
    <<SOS>> \o [k \in 1..Len(tokens) |-> TokenVocab(tokens[k])] \o <<EOS>>

\* a vocabulary built from the data: the constants first, in the order
\* start, end, pad, unknown, then the symbols in first-seen order
DataSOS == 0
DataEOS == 1
DataPAD == 2
DataUNK == 3

InputVocab(raw_) ==
    FirstSeen(Concat([i \in 1..Len(raw_) |-> raw_[i].input]), <<>>)

InputIds(raw_, input) ==
    LET v == InputVocab(raw_)
    IN  <<DataSOS>>
          \o [k \in 1..Len(input) |->
                 (CHOOSE j \in 1..Len(v) : v[j] = input[k]) + DataUNK]
          \o <<DataEOS>>

BaseToIdx(var, raw_) ==
    LET N  == Len(raw_)
        lv == LabelVocab(var, raw_)
    IN  IF var = "seq"
        THEN [tokens   |-> [i \in 1..N |-> TokenIds(raw_[i].tokens)],
              labels   |-> IF \A i \in 1..N : raw_[i].labels = NoneList
                           THEN NoneList
                           ELSE [i \in 1..N |->
                                   [k \in 1..Len(raw_[i].labels) |->
                                      LabelLookup(lv, raw_[i].labels[k])]],
              sentence_len         |-> [i \in 1..N |-> raw_[i].sentence_len],
              sentence_subword_len |-> [i \in 1..N |-> raw_[i].sentence_subword_len],
              token_starts         |-> [i \in 1..N |-> raw_[i].token_starts]]
        ELSE IF var = "mid"
        THEN [input      |-> [i \in 1..N |-> InputIds(raw_, raw_[i].input)],
              input_len  |-> [i \in 1..N |-> raw_[i].input_len],
              target_idx |-> [i \in 1..N |-> raw_[i].target_idx],
              label      |-> [i \in 1..N |-> LabelLookup(lv, raw_[i].label)]]
        ELSE [tokens       |-> [i \in 1..N |-> TokenIds(raw_[i].tokens)],
              num_tokens   |-> [i \in 1..N |-> raw_[i].num_tokens],
              target_idx   |-> [i \in 1..N |-> raw_[i].target_idx],
              label        |-> [i \in 1..N |-> LabelLookup(lv, raw_[i].label)],
              token_starts |-> [i \in 1..N |-> raw_[i].token_starts]]

\* lines 355-356 and 430-431 with the shift applied twice
PrefixTokenStartsTwice(tokstarts, tokens_ti) ==
    <<0>> \o [k \in 1..Len(tokstarts) |-> tokstarts[k] + 2]
          \o <<Len(tokens_ti) + 1>>

\* lines 355-356 and 430-431
PrefixTokenStarts(tokstarts, tokens_ti) ==
    <<0>> \o [k \in 1..Len(tokstarts) |-> tokstarts[k] + 1]
          \o <<Len(tokens_ti) + 1>>

PrefixAll(m) ==
    [ti \in 1..Len(m.token_starts) |->
        PrefixTokenStarts(m.token_starts[ti], m.tokens[ti])]

\* SequenceClassificationWithSubwords.to_idx
SeqToIdx(raw_) ==
    LET m == BaseToIdx("seq", raw_)
    IN  [m EXCEPT !.token_starts = PrefixAll(m)]

\* SentenceProberDataset.to_idx
TokToIdx(raw_) ==
    LET m == BaseToIdx("tok", raw_)
    IN  [m EXCEPT !.token_starts = PrefixAll(m),
                  !.target_idx = [i \in 1..Len(m.target_idx) |-> m.target_idx[i] + 1]]

\* MidSentenceProberDataset.to_idx
MidToIdx(raw_) ==
    LET m == BaseToIdx("mid", raw_)
    IN  [m EXCEPT !.target_idx = [i \in 1..Len(m.target_idx) |-> m.target_idx[i] + 1]]

\* Embedding: the rows of the embedding file, in file order, named by their
\* word; load_stream keeps the rows whose word is in the filter, and
\* __getitem__ answers row 0 for a word without a row
EmbeddingFile == <<"bb", "a">>

EmbeddingRows(filter) == SelectSeq(EmbeddingFile, LAMBDA w : w \in filter)

EmbeddingGet(rows, key) == IF key \in Range(rows) THEN key ELSE rows[1]

\* EmbeddingProberDataset.to_idx; embedding_dim fails on a file with no row kept
EmbToIdxDefined(raw_) ==
    EmbeddingRows({raw_[i].target_word : i \in 1..Len(raw_)}) # <<>>

EmbToIdx(raw_) ==
    LET rows == EmbeddingRows({raw_[i].target_word : i \in 1..Len(raw_)})
        lv   == LabelVocab("emb", raw_)
    IN  [target_word |-> [i \in 1..Len(raw_) |->
                            EmbeddingGet(rows, raw_[i].target_word)],
         label       |-> [i \in 1..Len(raw_) |-> LabelLookup(lv, raw_[i].label)]]

-----------------------------------------------------------------------------
(* Batching *)

\* list(range(0, n, b))
RangeStep(n, b) == [k \in 1..((n + b - 1) \div b) |-> (k - 1) * b]

\* lines 186-188 without the is_unlabeled test
StartOrdersAlways(n, b, unlabeled, shuffle_batches) ==
    IF shuffle_batches THEN Shuffles(RangeStep(n, b)) ELSE {RangeStep(n, b)}

\* lines 186-188 with ragged slices
StartOrdersRagged(n, b, unlabeled, shuffle_batches) ==
    {[k \in 1..((n + b - 1) \div b) |-> IF k = 1 THEN 0 ELSE (k - 1) * b - 1]}

\* EmbeddingProberDataset.batched_iter, lines 186-188: the orders the starts
\* can be served in
StartOrders(n, b, unlabeled, shuffle_batches) ==
    IF unlabeled = FALSE /\ shuffle_batches
    THEN Shuffles(RangeStep(n, b))
    ELSE {RangeStep(n, b)}

\* EmbeddingProberDataset.batched_iter, lines 190-194
EmbBatch(m, start, b) ==
    LET end == start + b
    IN  [target_word |-> Slice(m.target_word, start, end),
         label       |-> Slice(m.label, start, end)]

\* BaseDataset.batched_iter: same starts, same slices
BaseStartOrders(n, b, unlabeled, shuffle_batches) ==
    IF unlabeled = FALSE /\ shuffle_batches
    THEN Shuffles(RangeStep(n, b))
    ELSE {RangeStep(n, b)}

PadRows(rows, pad) ==
    LET maxlen == MaxOf([i \in 1..Len(rows) |-> Len(rows[i])])
    IN  [i \in 1..Len(rows) |-> rows[i] \o Repeat(pad, maxlen - Len(rows[i]))]

\* BaseDataset.batched_iter: a slice of every container, the fields that
\* need padding (tokens) right-padded with the pad id to the batch maximum
BaseBatch(var, m, start, b) ==
    LET end == start + b
    IN  IF var = "seq"
        THEN [tokens               |-> PadRows(Slice(m.tokens, start, end), PAD),
              labels               |-> Slice(m.labels, start, end),
              sentence_len         |-> Slice(m.sentence_len, start, end),
              sentence_subword_len |-> Slice(m.sentence_subword_len, start, end),
              token_starts         |-> Slice(m.token_starts, start, end)]
        ELSE IF var = "mid"
        THEN [input      |-> PadRows(Slice(m.input, start, end), DataPAD),
              input_len  |-> Slice(m.input_len, start, end),
              target_idx |-> Slice(m.target_idx, start, end),
              label      |-> Slice(m.label, start, end)]
        ELSE [tokens       |-> PadRows(Slice(m.tokens, start, end), PAD),
              num_tokens   |-> Slice(m.num_tokens, start, end),
              target_idx   |-> Slice(m.target_idx, start, end),
              label        |-> Slice(m.label, start, end),
              token_starts |-> Slice(m.token_starts, start, end)]

\* lines 363-367 and 439-443 padding to a fixed width
PadTokenStartsGlobal(token_starts) ==
    LET maxlen == MaxWords + 3
    IN  [i \in 1..Len(token_starts) |->
           token_starts[i] \o Repeat(PadTokenStart, maxlen - Len(token_starts[i]))]

\* lines 363-367 and 439-443
PadTokenStarts(token_starts) ==
    LET maxlen == MaxOf([i \in 1..Len(token_starts) |-> Len(token_starts[i])])
        pad    == PadTokenStart
    IN  [i \in 1..Len(token_starts) |->
           token_starts[i] \o Repeat(pad, maxlen - Len(token_starts[i]))]

\* SequenceClassificationWithSubwords.batched_iter
SeqBatch(m, start, b) ==
    LET batch == BaseBatch("seq", m, start, b)
    IN  [batch EXCEPT !.token_starts = PadTokenStarts(batch.token_starts),
                      !.labels = IF batch.labels # <<>>
                                 THEN Concat(batch.labels) ELSE batch.labels]

\* SentenceProberDataset.batched_iter
TokBatch(m, start, b) ==
    LET batch == BaseBatch("tok", m, start, b)
    IN  [batch EXCEPT !.token_starts = PadTokenStarts(batch.token_starts)]

\* lines 365-368 and 441-444 padding the rows of self.mtx in place
ContainersPaddedInPlace(m, start, b) ==
    IF variant \in {"seq", "tok"}
    THEN LET padded == PadTokenStarts(Slice(m.token_starts, start, start + b))
         IN  [m EXCEPT !.token_starts =
                [i \in 1..Len(m.token_starts) |->
                   IF i > start /\ i <= start + Len(padded)
                   THEN padded[i - start] ELSE m.token_starts[i]]]
    ELSE m

\* self.mtx once a batch has been built: lines 366 and 442 build each padded
\* row as a new list (sample + [pad] * n) and lines 368-370 and 444 assign to
\* attributes of the batch, so the containers keep their rows
ContainersAfterBatch(m, start, b) == m

\* len(self)
DatasetLen == Len(raw)

OrdersOf(b) ==
    IF variant = "emb"
    THEN StartOrders(DatasetLen, b, is_unlabeled, config.shuffle_batches)
    ELSE BaseStartOrders(DatasetLen, b, is_unlabeled, config.shuffle_batches)

BatchAt(start, b) ==
    CASE variant = "emb" -> EmbBatch(mtx, start, b)
      [] variant = "seq" -> SeqBatch(mtx, start, b)
      [] variant = "tok" -> TokBatch(mtx, start, b)
      [] variant = "mid" -> BaseBatch("mid", mtx, start, b)

\* --- decoding ----------------------------------------------------------------

\* numpy's argmax: the first index of the maximum of a row of scores
Argmax(row) ==
    (CHOOSE k \in 1..Len(row) :
        /\ \A j \in 1..Len(row) : row[j] <= row[k]
        /\ \A j \in 1..(k - 1) : row[j] < row[k]) - 1

\* self.vocabs.labels.inv_lookup(label_idx)
InvLookup(vocab, idx) == vocab[idx + 1]

\* the offset that is never advanced
NextOffsetStuck(offset, sample) == offset

\* offset += sample.sentence_len
NextOffset(offset, sample) == offset + sample.sentence_len

\* the loop of decode over self.raw from sample si on; st holds the samples
\* as relabelled so far, the offset and the rows indexed so far
RECURSIVE DecodeLoop(_, _, _, _, _)
DecodeLoop(raw_, output, vocab, si, st) ==
    IF si > Len(raw_) THEN st
    ELSE LET sample == raw_[si]
             rows   == [t \in 1..sample.sentence_len |-> st.offset + (t - 1)]
             labels == [t \in 1..sample.sentence_len |->
                          InvLookup(vocab, Argmax(At(output, rows[t])))]
         IN  DecodeLoop(raw_, output, vocab, si + 1,
                        [raw    |-> Append(st.raw, [sample EXCEPT !.labels = labels]),
                         offset |-> NextOffset(st.offset, sample),
                         reads  |-> st.reads \o rows])

\* SequenceClassificationWithSubwords.decode(model_output)
SeqDecode(raw_, output, vocab) ==
    DecodeLoop(raw_, output, vocab, 1, [raw |-> <<>>, offset |-> 0, reads |-> <<>>])

\* --- the tokenizers and encoders kept in the modules' globals ---------------

\* globals() of a module in which nothing has been kept
NoGlobals == [k \in {} |-> <<>>]

\* globals()[global_key] = value
Bind(g, global_key, value) ==
    [k \in DOMAIN g \cup {global_key} |-> IF k = global_key THEN value ELSE g[k]]

\* a loader returns a new object whenever it is invoked: the object carries
\* the number of the invocation
Handle(loader, model_name, n) == [loader |-> loader, model_name |-> model_name, id |-> n]

\* f'{self.config.model_name}_tokenizer'
TokenizerKey(model_name) == <<model_name, "_tokenizer">>

\* the key without the flag
EmbedderKeyNameOnly(model_name, randomize_embedding_weights) ==
    <<<<model_name, "_model">>, FALSE>>

\* (f'{model_name}_model', randomize_embedding_weights)
EmbedderKey(model_name, randomize_embedding_weights) ==
    <<<<model_name, "_model">>, randomize_embedding_weights>>

\* self.tokenizer of a dataset under construction, with the globals and the
\* loads after it
GetTokenizer(g, log, model_name) ==
    LET global_key == TokenizerKey(model_name)
    IN  IF global_key \in DOMAIN g
        THEN [globals |-> g, loads |-> log, handle |-> g[global_key]]
        ELSE LET tokenizer == Handle("AutoTokenizer.from_pretrained", model_name,
                                     Len(log) + 1)
             IN  [globals |-> Bind(g, global_key, tokenizer),
                  loads   |-> Append(log, tokenizer),
                  handle  |-> tokenizer]

\* self.embedder of an Embedder under construction, with the globals and the
\* loads after it
GetEmbedder(g, log, model_name, randomize_embedding_weights) ==
    LET global_key == EmbedderKey(model_name, randomize_embedding_weights)
    IN  IF global_key \in DOMAIN g
        THEN [globals |-> g, loads |-> log, handle |-> g[global_key]]
        ELSE LET embedder ==
                     Handle(IF randomize_embedding_weights
                            THEN "AutoModel.from_config"
                            ELSE "AutoModel.from_pretrained",
                            model_name, Len(log) + 1)
             IN  [globals |-> Bind(g, global_key, embedder),
                  loads   |-> Append(log, embedder),
                  handle  |-> embedder]

-----------------------------------------------------------------------------
(* Models (probing/models/contextual_embedding_classifier.py).  The encoder *)
(* is a stub: the hidden state of a layer at a position of a row is a       *)
(* vector fixed by the layer, the token id, the position and whether the    *)
(* attention mask (position < sentence length) covers it.  Numbers are      *)
(* fractions <<numerator, denominator>> in lowest terms; <<0, 0>> is nan.   *)
(* Layer poolings that are Python ints are written "0" and "1".             *)

RECURSIVE GCD(_, _)
GCD(a, b) == IF b = 0 THEN a ELSE GCD(b, a % b)

NaN == <<0, 0>>

Rat(n, d) ==
    IF d = 0 THEN NaN
    ELSE LET g == GCD(n, d) IN <<n \div g, d \div g>>

RAdd(x, y) ==
    IF x = NaN \/ y = NaN THEN NaN
    ELSE Rat(x[1] * y[2] + y[1] * x[2], x[2] * y[2])

RMax(x, y) ==
    IF x = NaN \/ y = NaN THEN NaN
    ELSE IF x[1] * y[2] >= y[1] * x[2] THEN x ELSE y

RDiv(x, n) == IF x = NaN THEN NaN ELSE Rat(x[1], x[2] * n)

\* torch.zeros(hidden_size)
VZero == [k \in 1..HiddenSize |-> <<0, 1>>]

VAdd(u, v) == [k \in 1..Len(u) |-> RAdd(u[k], v[k])]
VMax(u, v) == [k \in 1..Len(u) |-> RMax(u[k], v[k])]
VDiv(u, n) == [k \in 1..Len(u) |-> RDiv(u[k], n)]

\* tensor.sum(axis=0): zeros for no rows
RECURSIVE VSum(_)
VSum(vs) == IF vs = <<>> THEN VZero ELSE VAdd(Head(vs), VSum(Tail(vs)))

\* tensor.max(axis=0).values, of at least one row
RECURSIVE VMaxOf(_)
VMaxOf(vs) == IF Len(vs) = 1 THEN vs[1] ELSE VMax(Head(vs), VMaxOf(Tail(vs)))

\* tensor.mean(axis=0): nan for no rows
VMean(vs) == VDiv(VSum(vs), Len(vs))

\* the row a pooling function could not compute
NoVec == <<>>

\* one layer of self.embedder(sentences, attention_mask=mask) at row bi,
\* position p (lines 57-64)
Hidden(l, X, lens, bi, p) ==
    LET tok  == At(At(X, bi), p)
        seen == p < At(lens, bi)
    IN  [k \in 1..HiddenSize |->
           IF k = 1 THEN Rat((l + 1) * tok, 1)
           ELSE IF seen THEN Rat(p + l + k, 1) ELSE Rat(0, 1)]

\* torch.stack(out) at one position: all layers
Stack(X, lens, bi, p) == [l \in 1..NLayers |-> Hidden(l - 1, X, lens, bi, p)]

IntLayers == {"0", "1"}
IntOf(lp) == IF lp = "0" THEN 0 ELSE 1

\* Embedder.embed, lines 68-80, at one position ('all' keeps the stack and
\* is used by the per-target prober only)
EmbedderKnown == {"weighted_sum", "all", "sum", "last", "first"} \cup IntLayers

EmbedderEmbed(lp, stack) ==
    CASE lp = "weighted_sum" -> VDiv(VSum(stack), Len(stack))
      [] lp = "sum"          -> VSum(stack)
      [] lp = "last"         -> stack[Len(stack)]
      [] lp = "first"        -> stack[1]
      [] lp \in IntLayers    -> stack[IntOf(lp) + 1]

\* the nine keys of self.pooling_func (lines 142-152 and 358-368)
PoolingFuncKeys ==
    {"first", "last", "max", "sum", "avg", "last2", "f+l", "lstm", "attn"}

\* tuple(np.array(batch.input).flat)
Flat(X) == Concat(X)

\* the result of a forward call: the pooled vectors handed to the classifier
\* head, or the exception raised; reads are the positions read for each
\* output row, encoded tells whether the encoder was invoked
Pooled(vecs, reads, encoded) ==
    [kind |-> "ok", error |-> "", named |-> "",
     vecs |-> vecs, reads |-> reads, encoded |-> encoded]

Raised(error, named, encoded) ==
    [kind |-> "error", error |-> error, named |-> named,
     vecs |-> <<>>, reads |-> <<>>, encoded |-> encoded]

\* embedded[bi, first:last]
SpanOf(emb, bi, first, last) ==
    [j \in 1..(IF last > first THEN last - first ELSE 0) |-> emb[bi + 1][first + j]]

\* self._cache: a set of [key, value] entries, one per key
CacheHas(cch, key) == \E e \in cch : e.key = key
CacheGet(cch, key) == (CHOOSE e \in cch : e.key = key).value

\* what a forward call gives back: its result and the cache it leaves
Gives(out, cch) == [out |-> out, cache |-> cch]

\* --- SentenceRepresentationProber -----------------------------------------

\* check_params, lines 160-172: TRUE when it raises ValueError
CheckParamsShiftOnly(cfg) ==
    cfg.shift_target # 0 /\ cfg.subword_pooling \notin {"first", "last"}

CheckParams(cfg) ==
    \/ cfg.shift_target # 0 /\ cfg.subword_pooling \notin {"first", "last"}
    \/ cfg.subword_pooling \notin {"first", "last"}
          /\ cfg.layer_pooling = "weighted_sum"

\* self.embedder.embed(X, batch.input_len) of the Embedder built with
\* layer_pooling='all' (lines 105-107, 261, 278): emb[row][position] is the
\* stack of all layers
ProberStacks(batch) ==
    [bi \in 1..Len(batch.input) |->
        [p \in 1..Len(batch.input[bi]) |->
            Stack(batch.input, batch.input_len, bi - 1, p - 1)]]

\* lines 262-265 and 299-302: 'sum' adds the layers, anything else indexes
\* the stack, which only an int can do
ProberLayerKnown(lp) == lp = "sum" \/ lp \in IntLayers
ProberLayer(lp, stack) == IF lp = "sum" THEN VSum(stack) ELSE stack[IntOf(lp) + 1]

Min2(a, b) == IF a <= b THEN a ELSE b
Max2(a, b) == IF a >= b THEN a ELSE b

\* lines 291-294 without the row-wise np.minimum
ShiftIdxBatchMax(idx, shift_target, input_len, wi) ==
    LET shift_max == [i \in 1..Len(input_len) |-> input_len[i] - 1]
    IN  Min2(Max2(idx + shift_target, 0), MaxOf(shift_max))

\* lines 291-294: idx += shift_target; np.minimum(idx, shift_max);
\* np.clip(idx, 0, shift_max.max()), for row wi
ShiftIdx(idx, shift_target, input_len, wi) ==
    LET shift_max == [i \in 1..Len(input_len) |-> input_len[i] - 1]
        moved     == idx + shift_target
        capped    == Min2(moved, At(shift_max, wi))
    IN  Min2(Max2(capped, 0), MaxOf(shift_max))

\* lines 283-294: the position read for row wi
FirstLastIdx(cfg, batch, wi) ==
    LET t   == At(batch.probe_target_idx, wi)
        row == At(batch.token_starts, wi)
        idx == IF cfg.subword_pooling = "first" THEN At(row, t)
               ELSE At(row, t + 1) - 1
    IN  IF cfg.shift_target # 0
        THEN ShiftIdx(idx, cfg.shift_target, batch.input_len, wi)
        ELSE idx

\* tuple(np.array(batch.input).flat), tuple(cache_target_idx.flat)
ProberKey(batch) ==
    [input |-> Flat(batch.input), target |-> batch.probe_target_idx]

\* _forward_first_last, lines 270-308
ProberFirstLast(cfg, cch, batch) ==
    LET key    == ProberKey(batch)
        n      == Len(batch.input)
        lp     == cfg.layer_pooling
        hit    == CacheHas(cch, key)
        stacks == ProberStacks(batch)
        idx    == [wi \in 1..n |-> FirstLastIdx(cfg, batch, wi - 1)]
        target == [wi \in 1..n |-> stacks[wi][idx[wi] + 1]]
        value  == IF lp = "weighted_sum" THEN target
                  ELSE [wi \in 1..n |-> ProberLayer(lp, target[wi])]
        cch2   == IF hit THEN cch ELSE cch \cup {[key |-> key, value |-> value]}
        got    == CacheGet(cch2, key)
        vecs   == IF lp = "weighted_sum"
                  THEN [wi \in 1..Len(got) |-> VDiv(VSum(got[wi]), Len(got[wi]))]
                  ELSE got
        reads  == IF hit THEN <<>> ELSE [wi \in 1..n |-> {idx[wi]}]
    IN  IF ~hit /\ lp # "weighted_sum" /\ ~ProberLayerKnown(lp)
        THEN Gives(Raised("IndexError", "", TRUE), cch)
        ELSE Gives(Pooled(vecs, reads, ~hit), cch2)

\* the two span ends of _forward_elementwise_pool and _forward_last2
ProberSpan(batch, wi) ==
    LET t   == At(batch.probe_target_idx, wi)
        row == At(batch.token_starts, wi)
    IN  [first |-> At(row, t), last |-> At(row, t + 1)]

\* lines 183-189 for one row: "if max" is followed by "if sum ... else", so
\* whatever line 184 computed is replaced by the sum or by the mean; line 184
\* itself raises on an empty span
ElementwisePoolRow(sp, span) ==
    IF sp = "max" /\ span = <<>> THEN NoVec
    ELSE IF sp = "sum" THEN VSum(span)
    ELSE VMean(span)

\* lines 200-205 and 454-461 reading last - 1 whatever the span
Last2RowAlways(emb_row, first, last) ==
    [vec   |-> At(emb_row, last) \o At(emb_row, last - 1),
     reads |-> {last, last - 1}]

\* lines 200-205 and 454-461 for one row; last is the last position of the
\* span, not its end
Last2Row(emb_row, first, last) ==
    LET last1 == At(emb_row, last)
        last2 == IF first = last THEN VZero ELSE At(emb_row, last - 1)
    IN  [vec   |-> last1 \o last2,
         reads |-> IF first = last THEN {last} ELSE {last, last - 1}]

\* forward, lines 253-268, up to the classifier head
ProberForward(cfg, cch, batch) ==
    LET sp  == cfg.subword_pooling
        lp  == cfg.layer_pooling
        n   == Len(batch.input)
        emb == [bi \in 1..n |->
                  [p \in 1..Len(batch.input[bi]) |->
                      ProberLayer(lp, ProberStacks(batch)[bi][p])]]
        span(wi) == ProberSpan(batch, wi - 1)
        pool == [wi \in 1..n |->
                   ElementwisePoolRow(
                       sp, SpanOf(emb, wi - 1, span(wi).first, span(wi).last))]
        l2   == [wi \in 1..n |->
                   Last2Row(emb[wi], span(wi).first, span(wi).last - 1)]
    IN  IF sp \in {"first", "last"} THEN ProberFirstLast(cfg, cch, batch)
        ELSE IF ~ProberLayerKnown(lp)
        THEN Gives(Raised("IndexError", "", TRUE), cch)
        ELSE IF sp \notin PoolingFuncKeys
        THEN Gives(Raised("KeyError", sp, TRUE), cch)
        ELSE IF sp = "last2"
        THEN Gives(Pooled([wi \in 1..n |-> l2[wi].vec],
                          [wi \in 1..n |-> l2[wi].reads], TRUE), cch)
        ELSE IF \E wi \in 1..n : pool[wi] = NoVec
        THEN Gives(Raised("ReductionError", "", TRUE), cch)
        ELSE Gives(Pooled(pool,
                          [wi \in 1..n |-> (span(wi).first)..(span(wi).last - 1)],
                          TRUE), cch)

\* --- TransformerForSequenceTagging -----------------------------------------

\* self.embedder.embed(X, batch.sentence_subword_len) of the Embedder built
\* with the configured layer pooling (lines 321-324, 473)
TaggerEmb(cfg, batch) ==
    [bi \in 1..Len(batch.tokens) |->
        [p \in 1..Len(batch.tokens[bi]) |->
            EmbedderEmbed(cfg.layer_pooling,
                          Stack(batch.tokens, batch.sentence_subword_len,
                                bi - 1, p - 1))]]

\* the (bi, ti) pairs of "for bi in range(batch_size): for ti in
\* range(batch.sentence_len[bi])", in order: one output row each
TaggerWords(batch) ==
    Concat([bi \in 1..Len(batch.tokens) |->
              [ti \in 1..batch.sentence_len[bi] |-> <<bi - 1, ti - 1>>]])

\* first and last of the word ti of row bi (lines 490-491)
TaggerSpan(batch, w) ==
    [first |-> At(At(batch.token_starts, w[1]), w[2] + 1),
     last  |-> At(At(batch.token_starts, w[1]), w[2] + 2)]

\* lines 474-499 for one word
TaggerPoolRow(sp, emb, batch, w) ==
    LET s    == TaggerSpan(batch, w)
        span == SpanOf(emb, w[1], s.first, s.last)
    IN  CASE sp = "first" -> At(emb[w[1] + 1], s.first)
          [] sp = "last"  -> At(emb[w[1] + 1], s.last - 1)
          [] sp = "sum"   -> VSum(span)
          [] sp = "avg"   -> VMean(span)
          [] sp = "max"   -> IF span = <<>> THEN NoVec ELSE VMaxOf(span)

TaggerReads(sp, batch, w) ==
    LET s == TaggerSpan(batch, w)
    IN  CASE sp = "first" -> {s.first}
          [] sp = "last"  -> {s.last - 1}
          [] OTHER        -> (s.first)..(s.last - 1)

\* cache_key = tuple(np.array(batch.input).flat), line 467
TaggerKey(batch) == Flat(batch.tokens)

\* _forward_with_cache, lines 464-501
TaggerForwardWithCache(cfg, cch, batch) ==
    LET sp    == cfg.subword_pooling
        key   == TaggerKey(batch)
        hit   == CacheHas(cch, key)
        emb   == TaggerEmb(cfg, batch)
        words == TaggerWords(batch)
        out   == [k \in 1..Len(words) |-> TaggerPoolRow(sp, emb, batch, words[k])]
        cch2  == cch \cup {[key |-> key, value |-> out]}
    IN  IF hit THEN Gives(Pooled(CacheGet(cch, key), <<>>, FALSE), cch)
        ELSE IF cfg.layer_pooling \notin EmbedderKnown
        THEN Gives(Raised("ValueError", cfg.layer_pooling, TRUE), cch)
        ELSE IF \E k \in 1..Len(words) : out[k] = NoVec
        THEN Gives(Raised("ReductionError", "", TRUE), cch)
        ELSE Gives(Pooled(out,
                          [k \in 1..Len(words) |-> TaggerReads(sp, batch, words[k])],
                          TRUE), cch2)

\* _forward_last2, lines 445-462
TaggerForwardLast2(cfg, cch, batch) ==
    LET emb   == TaggerEmb(cfg, batch)
        words == TaggerWords(batch)
        l2    == [k \in 1..Len(words) |->
                    Last2Row(emb[words[k][1] + 1],
                             TaggerSpan(batch, words[k]).first,
                             TaggerSpan(batch, words[k]).last - 1)]
    IN  IF cfg.layer_pooling \notin EmbedderKnown
        THEN Gives(Raised("ValueError", cfg.layer_pooling, TRUE), cch)
        ELSE Gives(Pooled([k \in 1..Len(words) |-> l2[k].vec],
                          [k \in 1..Len(words) |-> l2[k].reads], TRUE), cch)

\* forward, lines 370-375, up to the dropout and the classifier head
TaggerForward(cfg, cch, batch) ==
    LET sp == cfg.subword_pooling
    IN  IF sp \notin PoolingFuncKeys
        THEN Gives(Raised("KeyError", sp, FALSE), cch)
        ELSE IF sp = "last2" THEN TaggerForwardLast2(cfg, cch, batch)
        ELSE TaggerForwardWithCache(cfg, cch, batch)

-----------------------------------------------------------------------------
(* Inputs: the streams and configurations a dataset is constructed from *)

GoldLabel(w) == IF w \in {"", "a"} THEN "A" ELSE "B"

Config(bow, mask_positions, shuffle_batches, max_samples, probe_first_char) ==
    [bow |-> bow, mask_positions |-> mask_positions,
     shuffle_batches |-> shuffle_batches, max_samples |-> max_samples,
     probe_first_char |-> probe_first_char]

Block(ws, labelled) ==
    [k \in 1..Len(ws) |-> WordLine(ws[k], IF labelled THEN GoldLabel(ws[k]) ELSE None)]

\* the blocks, each followed by a blank line, the last one only if trailing
StreamOf(blocks, trailing) ==
    Concat([k \in 1..Len(blocks) |->
              IF k = Len(blocks) /\ ~trailing THEN blocks[k]
              ELSE Append(blocks[k], BlankLine)])

TokLine(ws, idx, labelled) ==
    [raw_sent |-> ws, raw_target |-> At(ws, idx), raw_idx |-> idx,
     label |-> IF labelled THEN GoldLabel(At(ws, idx)) ELSE None]

MaskChoices == {{}, {0}, {0 - 1}, {1}, {0 - 1, 1}}

PipeSentences == {<<"a">>, <<"bb", "a">>, <<"long", "bb">>}

\* a sentence of exactly MaxSubwordLen subwords and one of one more
LongSentences == {<<<<"long", "a">>, <<"long", "bb">>>>,
                  <<<<"long", "bb">>, <<"long", "a">>>>}

PipeLines == {<<<<"bb", "a">>, 1>>, <<<<"a", "bb", "a">>, 1>>}

TokPipeLines == {<<<<"a">>, 0>>, <<<<"a", "bb", "a">>, 1>>}

TokLongLine == <<<<"long", "long", "long">>, 0>>

MaxSamplesChoices == {NoneInt} \cup (0..(MaxSamples - 1))

Input(var, lines, cfg, unlabeled) ==
    [variant |-> var, stream |-> lines, config |-> cfg, is_unlabeled |-> unlabeled]

\* one block of any words
SeqInputsWide ==
    {Input("seq", StreamOf(<<Block(ws, labelled)>>, trailing),
           Config(FALSE, {}, FALSE, NoneInt, FALSE), ~labelled) :
        ws \in SeqsOf(Words, 1, MaxWords), labelled \in BOOLEAN, trailing \in BOOLEAN}

\* several blocks of a few kinds
SeqInputsDeep ==
    {Input("seq",
           StreamOf([k \in 1..Len(bs) |-> Block(bs[k], c[1])], c[2]),
           Config(FALSE, {}, c[1], c[3], FALSE), ~c[1]) :
        bs \in SeqsOf(PipeSentences, 0, MaxSamples),
        c \in BOOLEAN \X BOOLEAN \X MaxSamplesChoices}

\* one line of any words, any target, any masking, with and without shuffling
TokInputsWide ==
    {Input("tok", <<TokLine(l[1], l[2], TRUE)>>,
           Config(c[1], c[2], FALSE, NoneInt, FALSE), FALSE) :
        l \in {x \in SeqsOf(TokWords, 1, MaxWords) \X (0..(MaxWords - 1)) :
                 x[2] < Len(x[1])},
        c \in BOOLEAN \X MaskChoices}

LineInputsDeep(var, lines, probe_first_char) ==
    {Input(var, [k \in 1..Len(ls) |-> TokLine(ls[k][1], ls[k][2], c[1])],
           Config(FALSE, {}, c[2], NoneInt, probe_first_char), ~c[1]) :
        ls \in SeqsOf(lines, 0, MaxSamples),
        c \in BOOLEAN \X BOOLEAN}

\* two blocks at the length limit
SeqInputsLong ==
    {Input("seq", StreamOf([k \in 1..Len(bs) |-> Block(bs[k], labelled)], FALSE),
           Config(FALSE, {}, labelled, NoneInt, FALSE), ~labelled) :
        bs \in LongSentences, labelled \in BOOLEAN}

\* one line of long words only
TokInputsLong ==
    {Input("tok", <<TokLine(TokLongLine[1], TokLongLine[2], c[1])>>,
           Config(FALSE, {}, c[2], NoneInt, FALSE), ~c[1]) :
        c \in BOOLEAN \X BOOLEAN}

\* streams of several samples, for the whole life of a dataset
Inputs ==
    SeqInputsDeep
        \cup SeqInputsLong
        \cup LineInputsDeep("tok", TokPipeLines, FALSE)
        \cup TokInputsLong
        \cup LineInputsDeep("emb", PipeLines, FALSE)
        \cup LineInputsDeep("mid", PipeLines, FALSE)
        \cup LineInputsDeep("mid", PipeLines, TRUE)

\* streams of one sample of any shape, for the extraction of a raw sample
ExtractInputs == SeqInputsWide \cup TokInputsWide

\* --- the datasets decode is called on and the buffers it is handed ----------

LabelledBlock(ls) == [k \in 1..Len(ls) |-> WordLine("a", ls[k])]

\* sentences as the labels of their words: the same word under several labels
DecodeSentences == {<<"A">>, <<"B", "A">>, <<"A", "B">>, <<"C", "A", "C">>}

DecodeInputs ==
    {Input("seq", StreamOf([k \in 1..Len(bs) |-> LabelledBlock(bs[k])], trailing),
           Config(FALSE, {}, FALSE, NoneInt, FALSE), FALSE) :
        bs \in SeqsOf(DecodeSentences, 0, MaxDecodeSamples), trailing \in BOOLEAN}

\* a row of n scores whose maximum is at class c alone
OneHot(c, n) == [k \in 1..n |-> IF k = c + 1 THEN 1 ELSE 0]

\* a row of n scores whose maximum is at class c and at every later class
FromOn(c, n) == [k \in 1..n |-> IF k >= c + 1 THEN 1 ELSE 0]

\* the buffers of a classifier with n classes for the words with the gold ids
\* gold: every row at its gold class, every row at the class s after its gold
\* class or at the class s after its position, and the same with tied scores
OutputRows(gold, n) ==
    IF n = 0 THEN {<<>>}
    ELSE UNION {{[r \in 1..Len(gold) |-> OneHot((gold[r] + s) % n, n)],
                 [r \in 1..Len(gold) |-> OneHot((r + s) % n, n)],
                 [r \in 1..Len(gold) |-> FromOn((gold[r] + s) % n, n)]} :
                s \in 0..(n - 1)}

\* the buffer may hold rows beyond the words of the dataset
ModelOutputs(gold, n) ==
    OutputRows(gold, n)
        \cup (IF n = 0 THEN {} ELSE {Append(o, OneHot(0, n)) : o \in OutputRows(gold, n)})

\* --- the batches the models are called on -----------------------------------

\* one batch of b samples from the start of a labelled sequence-tagging
\* dataset of the given sentences
SeqBatchOf(sentences, b) ==
    LET lines == StreamOf([k \in 1..Len(sentences) |-> Block(sentences[k], TRUE)],
                          TRUE)
    IN  SeqBatch(SeqToIdx(SeqLoadStream(lines, NoneInt)), 0, b)

TaggerBatches ==
    {SeqBatchOf(<<s>>, 1) : s \in {<<"a", "", "bb">>, <<"a", "bb">>, <<"bb", "a">>}}
        \cup {SeqBatchOf(<<<<"a">>, <<"bb", "a">>>>, 2)}

\* one batch of b samples from the start of a token-in-sequence dataset of the
\* given <<sentence, target index>> lines, under the names the per-target
\* prober reads a batch by (input, input_len, probe_target_idx, token_starts)
ProberBatchOf(ls, b) ==
    LET cfg  == Config(FALSE, {}, FALSE, NoneInt, FALSE)
        raw_ == BaseLoadLoop(
                    [i \in 1..Len(ls) |->
                        TokExtractSample(TokLine(ls[i][1], ls[i][2], TRUE), cfg,
                                         [k \in 1..Len(ls[i][1]) |-> k - 1])],
                    1, <<>>)
        tb   == TokBatch(TokToIdx(raw_), 0, b)
    IN  [input            |-> tb.tokens,
         input_len        |-> tb.num_tokens,
         probe_target_idx |-> tb.target_idx,
         token_starts     |-> tb.token_starts]

\* the target is never the last word of its line: the token-in-sequence
\* dataset closes the last word's span after the end marker
ProberBatches ==
    {ProberBatchOf(<<l>>, 1) :
        l \in {<<<<"", "a", "bb">>, 1>>, <<<<"a", "bb", "">>, 1>>,
               <<<<"a", "bb", "">>, 0>>}}
        \cup {ProberBatchOf(<<<<<<"a", "bb", "">>, 1>>, <<<<"a", "">>, 0>>>>, 2)}

\* the configurations a model is built with
ModelConfig(sp, lp, shift) ==
    [subword_pooling |-> sp, layer_pooling |-> lp, shift_target |-> shift]

SubwordPoolings == {"first", "last", "max", "sum", "avg", "last2", "foo"}

ProberConfigs ==
    {ModelConfig(sp, lp, shift) :
        sp \in SubwordPoolings,
        lp \in {"1", "sum", "weighted_sum", "foo"},
        shift \in {0 - 2, 0, 2}}

TaggerConfigs ==
    {ModelConfig(sp, lp, 0) :
        sp \in SubwordPoolings,
        lp \in {"last", "sum", "1", "weighted_sum", "foo"}}

-----------------------------------------------------------------------------
(* The state machine *)

\* no model has been constructed
NoModel == [class |-> "none", state |-> "none", config |-> ModelConfig("", "", 0)]

\* no iteration has ended on the containers to_idx built last
NoEpoch == [batch_size |-> 0, yielded |-> <<>>]

InitOf(inputs) ==
    \E inp \in inputs :
        /\ variant = inp.variant
        /\ config = inp.config
        /\ is_unlabeled = inp.is_unlabeled
        /\ stream = inp.stream
        /\ raw = <<>>
        /\ all_idx = <<>>
        /\ mtx = <<>>
        /\ idx_calls = 0
        /\ pc = "new"
        /\ batch_size = 0
        /\ starts = <<>>
        /\ yielded_starts = <<>>
        /\ yielded = <<>>
        /\ prev = NoEpoch
        /\ model = NoModel
        /\ cache = {}
        /\ calls = <<>>
        /\ model_output = <<>>
        /\ rows_read = <<>>
        /\ data_globals = NoGlobals
        /\ model_globals = NoGlobals
        /\ loads = <<>>
        /\ objects = <<>>

Init == InitOf(Inputs)

InitExtract == InitOf(ExtractInputs)

\* the orders np.random.shuffle can leave np.arange(n) in
ShuffledArange(n) == Shuffles([k \in 1..n |-> k - 1])

\* SequenceClassificationWithSubwords.load_stream
SeqLoad ==
    /\ UNCHANGED <<modelVars, decodeVars, memoVars>>
    /\ pc = "new" /\ variant = "seq"
    /\ raw' = SeqLoadStream(stream, config.max_samples)
    /\ pc' = "loaded"
    /\ UNCHANGED <<variant, config, is_unlabeled, stream, all_idx, mtx,
                   idx_calls, batch_size, starts, yielded_starts, yielded, prev>>

\* BaseDataset.load_stream with SentenceProberDataset.extract_sample_from_line
TokLoad ==
    /\ UNCHANGED <<modelVars, decodeVars, memoVars>>
    /\ pc = "new" /\ variant = "tok"
    /\ \E perms \in Product([i \in 1..Len(stream) |->
                IF config.bow THEN ShuffledArange(Len(stream[i].raw_sent))
                ELSE {[k \in 1..Len(stream[i].raw_sent) |-> k - 1]}]) :
        /\ all_idx' = perms
        /\ raw' = BaseLoadLoop([i \in 1..Len(stream) |->
                                  TokExtractSample(stream[i], config, perms[i])],
                               1, <<>>)
    /\ pc' = "loaded"
    /\ UNCHANGED <<variant, config, is_unlabeled, stream, mtx,
                   idx_calls, batch_size, starts, yielded_starts, yielded, prev>>

\* BaseDataset.load_stream with EmbeddingProberDataset.extract_sample_from_line
EmbLoad ==
    /\ UNCHANGED <<modelVars, decodeVars, memoVars>>
    /\ pc = "new" /\ variant = "emb"
    /\ raw' = BaseLoadLoop([i \in 1..Len(stream) |-> EmbExtractSample(stream[i])],
                           1, <<>>)
    /\ pc' = "loaded"
    /\ UNCHANGED <<variant, config, is_unlabeled, stream, all_idx, mtx,
                   idx_calls, batch_size, starts, yielded_starts, yielded, prev>>

\* BaseDataset.load_stream with MidSentenceProberDataset.extract_sample_from_line
MidLoad ==
    /\ UNCHANGED <<modelVars, decodeVars, memoVars>>
    /\ pc = "new" /\ variant = "mid"
    /\ raw' = BaseLoadLoop([i \in 1..Len(stream) |->
                              MidExtractSample(stream[i], config)], 1, <<>>)
    /\ pc' = "loaded"
    /\ UNCHANGED <<variant, config, is_unlabeled, stream, all_idx, mtx,
                   idx_calls, batch_size, starts, yielded_starts, yielded, prev>>

\* to_idx of the dataset's class; it may be called again on an indexed dataset
ToIdx ==
    /\ UNCHANGED <<modelVars, decodeVars, memoVars>>
    /\ pc \in {"loaded", "indexed", "done"}
    /\ variant = "emb" => EmbToIdxDefined(raw)
    /\ mtx' = CASE variant = "seq" -> SeqToIdx(raw)
                [] variant = "tok" -> TokToIdx(raw)
                [] variant = "emb" -> EmbToIdx(raw)
                [] variant = "mid" -> MidToIdx(raw)
    /\ idx_calls' = IF idx_calls < 2 THEN idx_calls + 1 ELSE idx_calls
    /\ pc' = "indexed"
    /\ prev' = NoEpoch
    /\ UNCHANGED <<variant, config, is_unlabeled, stream, raw, all_idx,
                   batch_size, starts, yielded_starts, yielded>>

\* batched_iter(b), run to its first yield (or to its end when there is none)
BatchedIterFirst ==
    /\ UNCHANGED <<modelVars, decodeVars, memoVars>>
    /\ pc \in {"indexed", "done"}
    /\ \E b \in 1..MaxBatchSize :
        \E order \in OrdersOf(b) :
            /\ batch_size' = b
            /\ IF order = <<>>
               THEN /\ pc' = "done"
                    /\ starts' = <<>>
                    /\ yielded_starts' = <<>>
                    /\ yielded' = <<>>
               ELSE /\ pc' = "iter"
                    /\ starts' = Tail(order)
                    /\ yielded_starts' = <<Head(order)>>
                    /\ yielded' = <<BatchAt(Head(order), b)>>
            /\ mtx' = (IF order = <<>> THEN mtx
                       ELSE ContainersAfterBatch(mtx, Head(order), b))
    /\ prev' = (IF pc = "done" /\ ~config.shuffle_batches
                THEN [batch_size |-> batch_size, yielded |-> yielded]
                ELSE NoEpoch)
    /\ UNCHANGED <<variant, config, is_unlabeled, stream, raw, all_idx,
                   idx_calls>>

\* the running batched_iter resumed: its next yield, or its end
BatchedIterNext ==
    /\ UNCHANGED <<modelVars, decodeVars, memoVars>>
    /\ pc = "iter"
    /\ IF starts = <<>>
       THEN /\ pc' = "done"
            /\ UNCHANGED <<starts, yielded_starts, yielded, mtx>>
       ELSE /\ pc' = "iter"
            /\ starts' = Tail(starts)
            /\ yielded_starts' = Append(yielded_starts, Head(starts))
            /\ yielded' = Append(yielded, BatchAt(Head(starts), batch_size))
            /\ mtx' = ContainersAfterBatch(mtx, Head(starts), batch_size)
    /\ UNCHANGED <<variant, config, is_unlabeled, stream, raw, all_idx,
                   idx_calls, batch_size, prev>>

Next ==
    \/ SeqLoad
    \/ TokLoad
    \/ EmbLoad
    \/ MidLoad
    \/ ToIdx
    \/ BatchedIterFirst
    \/ BatchedIterNext

Spec == Init /\ [][Next]_vars

\* load_stream alone, on the streams of one sample
NextExtract ==
    \/ SeqLoad
    \/ TokLoad

SpecExtract == InitExtract /\ [][NextExtract]_vars

\* no dataset: the models are called on batches built beforehand
InitModel ==
    /\ variant = "none"
    /\ config = Config(FALSE, {}, FALSE, NoneInt, FALSE)
    /\ is_unlabeled = FALSE
    /\ stream = <<>>
    /\ raw = <<>>
    /\ all_idx = <<>>
    /\ mtx = <<>>
    /\ idx_calls = 0
    /\ pc = "none"
    /\ batch_size = 0
    /\ starts = <<>>
    /\ yielded_starts = <<>>
    /\ yielded = <<>>
    /\ prev = NoEpoch
    /\ model = NoModel
    /\ cache = {}
    /\ calls = <<>>
    /\ model_output = <<>>
    /\ rows_read = <<>>
    /\ data_globals = NoGlobals
    /\ model_globals = NoGlobals
    /\ loads = <<>>
    /\ objects = <<>>

\* SentenceRepresentationProber.__init__; BaseModel.__init__ keeps the config
\* and runs check_params, whose ValueError leaves no model to call
ProberInit ==
    /\ model = NoModel
    /\ \E cfg \in ProberConfigs :
          model' = [class  |-> "prober",
                    state  |-> IF CheckParams(cfg) THEN "ValueError" ELSE "ready",
                    config |-> cfg]
    /\ cache' = {}
    /\ calls' = <<>>
    /\ UNCHANGED <<dataVars, decodeVars, memoVars>>

\* TransformerForSequenceTagging.__init__
TaggerInit ==
    /\ model = NoModel
    /\ \E cfg \in TaggerConfigs :
          model' = [class |-> "tagger", state |-> "ready", config |-> cfg]
    /\ cache' = {}
    /\ calls' = <<>>
    /\ UNCHANGED <<dataVars, decodeVars, memoVars>>

\* idx = batch.token_starts[helper, target_idx] (lines 284-286) is a copy, and
\* "idx += shift_target" (line 292) changes the copy: the batch keeps its matrix
TokenStartsAfterForward(batch, cfg) == batch.token_starts

\* SentenceRepresentationProber.forward(batch)
ProberCall ==
    /\ model.class = "prober" /\ model.state = "ready"
    /\ Len(calls) < MaxCalls
    /\ \E batch \in ProberBatches :
          LET g == ProberForward(model.config, cache, batch)
          IN  /\ cache' = g.cache
              /\ calls' = Append(calls,
                    [batch |-> batch, out |-> g.out,
                     token_starts_after |->
                         TokenStartsAfterForward(batch, model.config)])
    /\ UNCHANGED <<dataVars, model, decodeVars, memoVars>>

\* TransformerForSequenceTagging.forward(batch)
TaggerCall ==
    /\ model.class = "tagger" /\ model.state = "ready"
    /\ Len(calls) < MaxCalls
    /\ \E batch \in TaggerBatches :
          LET g == TaggerForward(model.config, cache, batch)
          IN  /\ cache' = g.cache
              /\ calls' = Append(calls,
                    [batch |-> batch, out |-> g.out,
                     token_starts_after |-> batch.token_starts])
    /\ UNCHANGED <<dataVars, model, decodeVars, memoVars>>

NextModel ==
    \/ ProberInit
    \/ TaggerInit
    \/ ProberCall
    \/ TaggerCall

SpecModel == InitModel /\ [][NextModel]_vars

\* the dataset of a sequence-tagging run: loaded, indexed, decoded
InitDecode == InitOf(DecodeInputs)

\* SequenceClassificationWithSubwords.decode(model_output), on a dataset whose
\* label vocabulary is the one to_idx left
Decode ==
    /\ pc = "indexed" /\ variant = "seq"
    /\ \E output \in ModelOutputs(Concat(mtx.labels), Len(LabelVocab("seq", raw))) :
          LET d == SeqDecode(raw, output, LabelVocab("seq", raw))
          IN  /\ raw' = d.raw
              /\ rows_read' = d.reads
              /\ model_output' = output
    /\ pc' = "decoded"
    /\ UNCHANGED <<variant, config, is_unlabeled, stream, all_idx, mtx, idx_calls,
                   batch_size, starts, yielded_starts, yielded, prev, modelVars,
                   memoVars>>

NextDecode ==
    \/ SeqLoad
    \/ ToIdx
    \/ Decode

SpecDecode == InitDecode /\ [][NextDecode]_vars

\* the model names of the configs of one process
ModelNames == {"bert-base-cased", "xlm-roberta-base"}

\* the constructor of a dataset with a tokenizer, up to self.tokenizer
NewDataset(class) ==
    /\ Len(objects) < MaxObjects
    /\ \E model_name \in ModelNames :
          LET t == GetTokenizer(data_globals, loads, model_name)
          IN  /\ data_globals' = t.globals
              /\ loads' = t.loads
              /\ objects' = Append(objects,
                    [class |-> class, model_name |-> model_name,
                     randomize_embedding_weights |-> FALSE, handle |-> t.handle])
    /\ UNCHANGED <<dataVars, modelVars, decodeVars, model_globals>>

\* SequenceClassificationWithSubwords.__init__
NewSequenceClassificationWithSubwords ==
    NewDataset("SequenceClassificationWithSubwords")

\* SentenceProberDataset.__init__
NewSentenceProberDataset == NewDataset("SentenceProberDataset")

\* Embedder.__init__, as the constructors of the two models call it with the
\* model name and the flag of their config
NewEmbedder ==
    /\ Len(objects) < MaxObjects
    /\ \E model_name \in ModelNames, randomize_embedding_weights \in BOOLEAN :
          LET e == GetEmbedder(model_globals, loads, model_name,
                               randomize_embedding_weights)
          IN  /\ model_globals' = e.globals
              /\ loads' = e.loads
              /\ objects' = Append(objects,
                    [class |-> "Embedder", model_name |-> model_name,
                     randomize_embedding_weights |-> randomize_embedding_weights,
                     handle |-> e.handle])
    /\ UNCHANGED <<dataVars, modelVars, decodeVars, data_globals>>

NextMemo ==
    \/ NewSequenceClassificationWithSubwords
    \/ NewSentenceProberDataset
    \/ NewEmbedder

\* one process: datasets and embedders constructed in any order
SpecMemo == InitModel /\ [][NextMemo]_vars

-----------------------------------------------------------------------------
(* Properties *)

Loaded == pc # "new"
Indexed == pc \in {"indexed", "iter", "done"}

\* the blocks of a stream of lines: maximal runs of non-blank lines
RECURSIVE BlocksOf(_, _, _)
BlocksOf(lines, i, cur) ==
    IF i > Len(lines) THEN (IF cur = <<>> THEN <<>> ELSE <<cur>>)
    ELSE IF lines[i].blank
         THEN (IF cur = <<>> THEN <<>> ELSE <<cur>>) \o BlocksOf(lines, i + 1, <<>>)
         ELSE BlocksOf(lines, i + 1, Append(cur, lines[i]))

\* number of subwords of the words before position k (1-based) of pieces
SubwordsBefore(pieces, k) == Len(Concat(SubSeq(pieces, 1, k - 1)))

Aligned(s) ==
    LET ts == s.token_starts
        n  == Len(s.raw_sentence)
    IN  /\ s.sentence_len = n
        /\ Len(ts) = n + 1
        /\ ts[1] = 0
        /\ \A k \in 1..n : ts[k] <= ts[k + 1]
        /\ ts[n + 1] = Len(s.tokens)
        /\ s.sentence_subword_len = Len(s.tokens)
        /\ \A k \in 1..n :
              Slice(s.tokens, ts[k], ts[k + 1]) = Tokenize(s.raw_sentence[k])

\* C1: in the sequence-tagging variant the raw token_starts of every block
\* has word_count + 1 entries, starts at 0, never decreases, ends at the
\* subword count, and the span [token_starts[i], token_starts[i+1]) is
\* exactly the subwords of word i
C1_SpansTile ==
    (variant = "seq" /\ Loaded) =>
        /\ \A i \in 1..Len(raw) : Aligned(raw[i])
        /\ LET blocks == BlocksOf(stream, 1, <<>>)
           IN  \A j \in 1..Len(blocks) : Aligned(create_sentence_from_lines(blocks[j]))

C1_Witness ==
    /\ variant = "seq" /\ Loaded
    /\ \E i \in 1..Len(raw) :
          /\ raw[i].raw_sentence = <<"bb", "", "a">>
          /\ raw[i].token_starts = <<0, 2, 2, 3>>

\* the per-word pieces of sample i of the token-in-sequence variant, in the
\* order the sample holds them (all_idx[i] is the identity without bow)
PiecesInOrder(i) ==
    [j \in 1..Len(stream[i].raw_sent) |->
        LET ti == all_idx[i][j]
        IN  IF (ti - stream[i].raw_idx) \in config.mask_positions
            THEN <<MASK>> ELSE Tokenize(At(stream[i].raw_sent, ti))]

WordSpan(s, t) ==
    Slice(s.tokens, At(s.token_starts, t),
          IF t + 1 < Len(s.token_starts) THEN At(s.token_starts, t + 1)
          ELSE s.num_tokens)

\* C3 as claimed: with bag-of-words the stored target index is the
\* post-shuffle position of the target word: its span holds exactly the
\* subwords of the original target word
C3_TargetFollowsShuffle ==
    (variant = "tok" /\ Loaded /\ config.bow) =>
        \A i \in 1..Len(raw) :
            WordSpan(raw[i], raw[i].target_idx)
                = MaskedPieces(stream[i], config.mask_positions, stream[i].raw_idx)

\* C4: without bag-of-words, word ti contributes the single mask symbol iff
\* ti - raw_idx is a mask position, and the tokenizer's output otherwise;
\* nothing else is in the sample
C4_MaskExactlyOffsets ==
    (variant = "tok" /\ Loaded /\ ~config.bow) =>
        \A i \in 1..Len(raw) :
            LET s == raw[i]
                n == Len(s.raw_sentence)
            IN  /\ Len(s.token_starts) = n
                /\ \A ti \in 0..(n - 1) :
                      WordSpan(s, ti) =
                         IF (ti - s.raw_idx) \in config.mask_positions
                         THEN <<MASK>>
                         ELSE Tokenize(At(s.raw_sentence, ti))
                /\ (n > 0 => At(s.token_starts, 0) = 0)
                /\ s.tokens = Concat([k \in 1..n |-> WordSpan(s, k - 1)])

C4_Witness ==
    /\ variant = "tok" /\ Loaded /\ ~config.bow
    /\ config.mask_positions = {0 - 1, 1}
    /\ \E i \in 1..Len(raw) :
          /\ raw[i].raw_sentence = <<"bb", "long", "a">>
          /\ raw[i].raw_idx = 0
          /\ raw[i].tokens = <<"b", "##b", MASK, "a">>


\* C5: after to_idx, however often it ran, the token-start array of each
\* sample of the sequence-tagging and token-in-sequence variants is 0, then
\* every raw token start plus 1, then the length of the sample's indexed
\* token list plus 1; the target index of the token-in-sequence and
\* mid-sequence variants is the raw target index plus 1
C5_ShiftedOnce ==
    Indexed =>
        /\ variant \in {"seq", "tok"} =>
              /\ Len(mtx.token_starts) = Len(raw)
              /\ \A i \in 1..Len(raw) :
                    LET ts  == mtx.token_starts[i]
                        rts == raw[i].token_starts
                    IN  /\ Len(ts) = Len(rts) + 2
                        /\ ts[1] = 0
                        /\ \A k \in 1..Len(rts) : ts[k + 1] = rts[k] + 1
                        /\ ts[Len(ts)] = Len(mtx.tokens[i]) + 1
        /\ variant \in {"tok", "mid"} =>
              /\ Len(mtx.target_idx) = Len(raw)
              /\ \A i \in 1..Len(raw) : mtx.target_idx[i] = raw[i].target_idx + 1

C5_Witness ==
    /\ pc = "indexed" /\ variant = "tok" /\ idx_calls = 2
    /\ \E i \in 1..Len(raw) :
          /\ raw[i].token_starts = <<0, 1, 3>>
          /\ raw[i].target_idx = 1
          /\ mtx.token_starts[i] = <<0, 1, 2, 4, Len(mtx.tokens[i]) + 1>>
          /\ mtx.target_idx[i] = 2

SubwordLen(s) == IF variant = "seq" THEN s.sentence_subword_len ELSE s.num_tokens

\* C6 as claimed: in each variant that tokenizes into subwords, no sample of
\* raw has more than 500 subwords after load_stream
C6_Claimed ==
    (variant \in {"seq", "tok"} /\ Loaded) =>
        \A i \in 1..Len(raw) : SubwordLen(raw[i]) <= MaxSubwordLen

\* the samples of the stream's blocks that have at most 500 subwords
SeqKeepable ==
    LET blocks == BlocksOf(stream, 1, <<>>)
    IN  SelectSeq([j \in 1..Len(blocks) |-> create_sentence_from_lines(blocks[j])],
                  LAMBDA x : Len(x.tokens) <= MaxSubwordLen)

\* C6 amended: in the sequence-tagging variant, the one that defines the
\* limit, no sample of raw has more than 500 subwords, and raw is the
\* samples of at most 500 subwords in input order, all of them when
\* max_samples is None and a prefix of them otherwise; the
\* token-in-sequence variant ignores no sample, whatever its length
C6_SeqDropsOver500 ==
    /\ (variant = "seq" /\ Loaded) =>
          /\ \A i \in 1..Len(raw) : raw[i].sentence_subword_len <= MaxSubwordLen
          /\ Len(raw) <= Len(SeqKeepable)
          /\ raw = SubSeq(SeqKeepable, 1, Len(raw))
          /\ config.max_samples = NoneInt => raw = SeqKeepable
    /\ (variant = "tok" /\ Loaded) =>
          /\ Len(raw) = Len(stream)
          /\ \A i \in 1..Len(raw) : raw[i].raw_sentence = stream[i].raw_sent

C6_Witness ==
    /\ variant = "seq" /\ Loaded
    /\ Len(raw) < Len(BlocksOf(stream, 1, <<>>))
    /\ \E i \in 1..Len(raw) : raw[i].sentence_subword_len = MaxSubwordLen
    /\ \E j \in 1..Len(BlocksOf(stream, 1, <<>>)) :
          create_sentence_from_lines(BlocksOf(stream, 1, <<>>)[j]).sentence_subword_len
             = MaxSubwordLen + 1


Iterating == pc \in {"iter", "done"}

\* number of samples of a batch, and of the materialized containers
BatchRows(batch) ==
    CASE variant = "emb" -> Len(batch.target_word)
      [] variant = "seq" -> Len(batch.sentence_len)
      [] variant = "tok" -> Len(batch.num_tokens)
      [] variant = "mid" -> Len(batch.input_len)

MtxRows ==
    CASE variant = "emb" -> Len(mtx.target_word)
      [] variant = "seq" -> Len(mtx.sentence_len)
      [] variant = "tok" -> Len(mtx.num_tokens)
      [] variant = "mid" -> Len(mtx.input_len)

\* the batch is the samples start .. start + b - 1 (0-based) of the containers
IsSliceAt(batch, start, b) ==
    LET rows == [k \in 1..BatchRows(batch) |-> start + k]
    IN  /\ BatchRows(batch) = (IF start + b <= MtxRows THEN b ELSE MtxRows - start)
        /\ CASE variant = "emb" ->
                  /\ batch.target_word = [k \in 1..Len(rows) |-> mtx.target_word[rows[k]]]
                  /\ batch.label = [k \in 1..Len(rows) |-> mtx.label[rows[k]]]
             [] variant = "seq" ->
                  /\ batch.sentence_len = [k \in 1..Len(rows) |-> mtx.sentence_len[rows[k]]]
                  /\ batch.sentence_subword_len
                       = [k \in 1..Len(rows) |-> mtx.sentence_subword_len[rows[k]]]
             [] variant = "tok" ->
                  /\ batch.num_tokens = [k \in 1..Len(rows) |-> mtx.num_tokens[rows[k]]]
                  /\ batch.target_idx = [k \in 1..Len(rows) |-> mtx.target_idx[rows[k]]]
                  /\ batch.label = [k \in 1..Len(rows) |-> mtx.label[rows[k]]]
             [] variant = "mid" ->
                  /\ batch.input_len = [k \in 1..Len(rows) |-> mtx.input_len[rows[k]]]
                  /\ batch.target_idx = [k \in 1..Len(rows) |-> mtx.target_idx[rows[k]]]
                  /\ batch.label = [k \in 1..Len(rows) |-> mtx.label[rows[k]]]

\* C7: batched_iter(b) over n samples yields ceil(n/b) batches; each is the
\* slice [start, start+b) of the containers for a start that is a multiple
\* of b; no start is served twice, so every sample is in exactly one batch;
\* only the batch with the largest start may be shorter than b; shuffling
\* changes the order of the batches only
C7_BatchesPartition ==
    Iterating =>
        LET n == MtxRows
            b == batch_size
            Y == 1..Len(yielded)
        IN  /\ Len(yielded_starts) = Len(yielded)
            /\ \A k \in Y :
                  /\ yielded_starts[k] % b = 0
                  /\ yielded_starts[k] >= 0 /\ yielded_starts[k] < n
                  /\ IsSliceAt(yielded[k], yielded_starts[k], b)
                  /\ (BatchRows(yielded[k]) < b =>
                         \A j \in 0..(n - 1) : j % b = 0 => j <= yielded_starts[k])
                  /\ BatchRows(yielded[k]) >= 1
            /\ \A k, l \in Y : yielded_starts[k] = yielded_starts[l] => k = l
            /\ pc = "done" =>
                  /\ Len(yielded) = (n + b - 1) \div b
                  /\ \A i \in 0..(n - 1) :
                        Cardinality({k \in Y :
                            /\ yielded_starts[k] <= i
                            /\ i < yielded_starts[k] + BatchRows(yielded[k])}) = 1

C7_Witness ==
    /\ pc = "done" /\ variant = "emb" /\ config.shuffle_batches
    /\ MtxRows = 3 /\ batch_size = 2
    /\ yielded_starts = <<2, 0>>
    /\ BatchRows(yielded[1]) = 1 /\ BatchRows(yielded[2]) = 2

\* C8: for an unlabeled dataset the batches are yielded in increasing start
\* offset, 0, b, 2b, ..., with shuffle_batches enabled or not
C8_UnlabeledInOrder ==
    (Iterating /\ is_unlabeled) =>
        \A k \in 1..Len(yielded_starts) : yielded_starts[k] = (k - 1) * batch_size

C8_Witness ==
    /\ pc = "done" /\ variant = "emb" /\ is_unlabeled /\ config.shuffle_batches
    /\ MtxRows = 3 /\ batch_size = 1
    /\ yielded_starts = <<0, 1, 2>>

\* the indexed token-start arrays of the samples of the batch served at start
RealTokenStarts(k) ==
    [r \in 1..BatchRows(yielded[k]) |-> mtx.token_starts[yielded_starts[k] + r]]

\* C9: in every batch of the subword-aware variants the token-start matrix
\* is rectangular, as wide as the longest indexed token-start array of that
\* batch; each row is its sample's indexed array followed by 1000 in every
\* remaining slot, a row of maximal length unpadded
C9_PaddedToBatchMax ==
    (Iterating /\ variant \in {"seq", "tok"}) =>
        \A k \in 1..Len(yielded) :
            LET real  == RealTokenStarts(k)
                M     == yielded[k].token_starts
                width == MaxOf([r \in 1..Len(real) |-> Len(real[r])])
            IN  /\ Len(M) = Len(real)
                /\ \A r \in 1..Len(M) :
                      /\ Len(M[r]) = width
                      /\ SubSeq(M[r], 1, Len(real[r])) = real[r]
                      /\ \A c \in (Len(real[r]) + 1)..width : M[r][c] = PadTokenStart
                      /\ (Len(real[r]) = width => M[r] = real[r])

\* a batch narrower than the widest array of the dataset, with a padded row
C9_Witness ==
    /\ Iterating /\ variant = "seq"
    /\ \E k \in 1..Len(yielded) :
          /\ Len(yielded[k].token_starts[1]) = 4
          /\ \E i \in 1..Len(mtx.token_starts) : Len(mtx.token_starts[i]) = 5
    /\ \E k \in 1..Len(yielded) :
          /\ Len(yielded[k].token_starts[1]) = 5
          /\ \E r \in 1..Len(yielded[k].token_starts) :
                yielded[k].token_starts[r][5] = PadTokenStart

\* C10 as claimed: every real (non-padding) token-start entry of every batch
\* of the sequence-tagging and token-in-sequence variants is below 1000
C10_RealBelowPad ==
    (Iterating /\ variant \in {"seq", "tok"}) =>
        \A k \in 1..Len(yielded) :
            \A r \in 1..Len(RealTokenStarts(k)) :
                \A c \in 1..Len(RealTokenStarts(k)[r]) :
                    yielded[k].token_starts[r][c] < PadTokenStart

\* what the length limit gives the sequence-tagging variant alone
C10_SeqRealBelowPad ==
    (Iterating /\ variant = "seq") => C10_RealBelowPad

\* what to_idx materializes from self.raw
MtxOf(r) ==
    CASE variant = "seq" -> SeqToIdx(r)
      [] variant = "tok" -> TokToIdx(r)
      [] variant = "emb" -> EmbToIdx(r)
      [] variant = "mid" -> MidToIdx(r)

-----------------------------------------------------------------------------
(* Properties of the models *)

CachedPoolings == {"first", "last", "max", "avg", "sum"}

\* the embedded tensor the pooling of a call works on: emb[row][position]
EmbeddedOf(batch) ==
    IF model.class = "prober"
    THEN [bi \in 1..Len(batch.input) |->
            [p \in 1..Len(batch.input[bi]) |->
                ProberLayer(model.config.layer_pooling,
                            ProberStacks(batch)[bi][p])]]
    ELSE TaggerEmb(model.config, batch)

\* the targets of a batch, one per output row: the row of the batch and the
\* span [first, last) of token_starts
TargetsOf(batch) ==
    IF model.class = "prober"
    THEN [wi \in 1..Len(batch.input) |->
            [row   |-> wi - 1,
             first |-> ProberSpan(batch, wi - 1).first,
             last  |-> ProberSpan(batch, wi - 1).last]]
    ELSE [k \in 1..Len(TaggerWords(batch)) |->
            [row   |-> TaggerWords(batch)[k][1],
             first |-> TaggerSpan(batch, TaggerWords(batch)[k]).first,
             last  |-> TaggerSpan(batch, TaggerWords(batch)[k]).last]]

EmbeddedSpan(batch, t) == SpanOf(EmbeddedOf(batch), t.row, t.first, t.last)

SpanReduce(sp, span) ==
    CASE sp = "max" -> VMaxOf(span)
      [] sp = "avg" -> VMean(span)
      [] sp = "sum" -> VSum(span)

\* C12 as claimed: with subword pooling max, avg or sum, every forward call
\* of either model gives, for each target whose span has at least one
\* position, the element-wise maximum, mean or sum of the embedded vectors
\* over the span
C12_ElementwisePool ==
    \A i \in 1..Len(calls) :
        (calls[i].out.kind = "ok"
            /\ model.config.subword_pooling \in {"max", "avg", "sum"}) =>
            LET ts == TargetsOf(calls[i].batch)
            IN  /\ Len(calls[i].out.vecs) = Len(ts)
                /\ \A k \in 1..Len(ts) :
                      ts[k].last > ts[k].first =>
                          calls[i].out.vecs[k] =
                              SpanReduce(model.config.subword_pooling,
                                         EmbeddedSpan(calls[i].batch, ts[k]))

\* what holds of the sequence-tagging model alone, for calls that invoked the
\* encoder
C12_TaggerElementwisePool ==
    \A i \in 1..Len(calls) :
        (model.class = "tagger" /\ calls[i].out.kind = "ok"
            /\ calls[i].out.encoded
            /\ model.config.subword_pooling \in {"max", "avg", "sum"}) =>
            LET ts == TargetsOf(calls[i].batch)
            IN  /\ Len(calls[i].out.vecs) = Len(ts)
                /\ \A k \in 1..Len(ts) :
                      ts[k].last > ts[k].first =>
                          calls[i].out.vecs[k] =
                              SpanReduce(model.config.subword_pooling,
                                         EmbeddedSpan(calls[i].batch, ts[k]))

\* C13: with subword pooling last2, every forward call of either model gives,
\* for each target whose span [first, last) has at least one position, the
\* embedded vector at last - 1 followed by the one at last - 2, or by zeros
\* when the span has one position, and reads no position outside the span
C13_Last2 ==
    \A i \in 1..Len(calls) :
        (calls[i].out.kind = "ok" /\ model.config.subword_pooling = "last2") =>
            LET ts  == TargetsOf(calls[i].batch)
                emb == EmbeddedOf(calls[i].batch)
            IN  /\ Len(calls[i].out.vecs) = Len(ts)
                /\ \A k \in 1..Len(ts) :
                      ts[k].last > ts[k].first =>
                          /\ calls[i].out.vecs[k] =
                                At(emb[ts[k].row + 1], ts[k].last - 1)
                                  \o (IF ts[k].last - ts[k].first = 1 THEN VZero
                                      ELSE At(emb[ts[k].row + 1], ts[k].last - 2))
                          /\ calls[i].out.reads[k]
                                \subseteq (ts[k].first)..(ts[k].last - 1)

C13_Witness ==
    /\ model.class = "tagger" /\ model.config.subword_pooling = "last2"
    /\ \E i \in 1..Len(calls) :
          /\ calls[i].out.kind = "ok"
          /\ \E k \in 1..Len(calls[i].out.vecs) :
                LET t == TargetsOf(calls[i].batch)[k]
                IN  /\ t.last - t.first = 1
                    /\ SubSeq(calls[i].out.vecs[k], HiddenSize + 1, 2 * HiddenSize)
                          = VZero
          /\ \E k \in 1..Len(calls[i].out.vecs) :
                LET t == TargetsOf(calls[i].batch)[k]
                IN  /\ t.last - t.first = 2
                    /\ calls[i].out.reads[k] = {t.last - 1, t.last - 2}

SameBatchContent(b1, b2) ==
    IF model.class = "prober"
    THEN b1.input = b2.input /\ b1.probe_target_idx = b2.probe_target_idx
    ELSE b1.tokens = b2.tokens

\* C14 as claimed: for subword pooling first, last, max, avg and sum, in both
\* models, a forward call on a batch whose input token ids (and, in the
\* per-target prober, target indices) are those of an earlier call returns
\* the pooled vectors of that call and does not invoke the encoder
C14_CachedRepeat ==
    \A i \in 1..Len(calls) : \A j \in 1..Len(calls) :
        (i < j /\ model.config.subword_pooling \in CachedPoolings
            /\ calls[i].out.kind = "ok"
            /\ SameBatchContent(calls[i].batch, calls[j].batch)) =>
            /\ calls[j].out.kind = "ok"
            /\ calls[j].out.vecs = calls[i].out.vecs
            /\ ~calls[j].out.encoded

\* what holds: the sequence-tagging model caches all five poolings, the
\* per-target prober first and last only
C14_CachedWhereCached ==
    (model.class = "tagger" \/ model.config.subword_pooling \in {"first", "last"})
        => C14_CachedRepeat

UnsupportedCombination(cfg) ==
    /\ cfg.subword_pooling \notin {"first", "last"}
    /\ cfg.shift_target # 0 \/ cfg.layer_pooling = "weighted_sum"

\* C15: a SentenceRepresentationProber is constructed with a ValueError, and
\* never called, exactly when its subword pooling is neither first nor last
\* and it has a non-zero shift_target or the layer pooling weighted_sum
C15_FailsAtConstruction ==
    model.class = "prober" =>
        /\ UnsupportedCombination(model.config) <=> model.state = "ValueError"
        /\ model.state # "ValueError" => model.state = "ready"
        /\ model.state = "ValueError" => calls = <<>>

C15_Witness ==
    /\ model.class = "prober" /\ model.state = "ValueError"
    /\ model.config.shift_target = 0
    /\ model.config.layer_pooling = "weighted_sum"
    /\ model.config.subword_pooling = "max"

\* the layer poolings each model supports
LayerPoolingKnown(lp) ==
    IF model.class = "prober"
    THEN lp = "weighted_sum" \/ ProberLayerKnown(lp)
    ELSE lp \in EmbedderKnown

\* C16 as claimed: a forward call on a model whose subword pooling is none of
\* the nine strategies, or whose layer pooling is not a supported one, fails
\* with a ValueError that names the unrecognized strategy
C16_ValueErrorNamed ==
    \A i \in 1..Len(calls) :
        LET sp == model.config.subword_pooling
            lp == model.config.layer_pooling
        IN  (sp \notin PoolingFuncKeys \/ ~LayerPoolingKnown(lp)) =>
                /\ calls[i].out.kind = "error"
                /\ calls[i].out.error = "ValueError"
                /\ calls[i].out.named \in {sp, lp} \ PoolingFuncKeys

\* what holds: an unknown layer pooling of the Embedder is a ValueError that
\* names it, whenever the encoder is reached
C16_EmbedderValueError ==
    \A i \in 1..Len(calls) :
        (model.class = "tagger"
            /\ model.config.subword_pooling \in PoolingFuncKeys
            /\ model.config.layer_pooling \notin EmbedderKnown) =>
                /\ calls[i].out.kind = "error"
                /\ calls[i].out.error = "ValueError"
                /\ calls[i].out.named = model.config.layer_pooling

Clamp(x, lo, hi) == IF x < lo THEN lo ELSE IF x > hi THEN hi ELSE x

\* C18: in the per-target prober with first or last pooling and a non-zero
\* shift_target, a call that invokes the encoder reads, for each row, the
\* unshifted position plus shift_target clamped into [0, input_len - 1] of
\* that row, and leaves the token-start matrix of the batch as it was
C18_ShiftClamped ==
    \A i \in 1..Len(calls) :
        (model.class = "prober" /\ model.config.shift_target # 0
            /\ model.config.subword_pooling \in {"first", "last"}
            /\ calls[i].out.kind = "ok" /\ calls[i].out.encoded) =>
            LET b  == calls[i].batch
                ts == TargetsOf(b)
            IN  /\ \A wi \in 1..Len(b.input) :
                      LET unshifted == IF model.config.subword_pooling = "first"
                                       THEN ts[wi].first ELSE ts[wi].last - 1
                          pos == Clamp(unshifted + model.config.shift_target,
                                       0, b.input_len[wi] - 1)
                      IN  /\ calls[i].out.reads[wi] = {pos}
                          /\ pos >= 0 /\ pos <= b.input_len[wi] - 1
                /\ calls[i].token_starts_after = b.token_starts

C18_Witness ==
    /\ model.class = "prober" /\ model.config.shift_target = 2
    /\ model.config.subword_pooling = "first"
    /\ \E i \in 1..Len(calls) :
          /\ calls[i].out.kind = "ok" /\ calls[i].out.encoded
          /\ Len(calls[i].batch.input) = 2
          /\ calls[i].batch.input_len = <<3, 1>>
          /\ calls[i].out.reads = <<{2}, {0}>>

\* what a call computes from its batch alone
Recomputed(batch) ==
    IF model.class = "prober"
    THEN ProberForward(model.config, {}, batch).out
    ELSE TaggerForward(model.config, {}, batch).out

\* C20 as claimed: a forward call answered from the pooling cache returns
\* what computing from its own batch gives, the number of rows included
C20_CacheSound ==
    \A i \in 1..Len(calls) :
        (calls[i].out.kind = "ok" /\ ~calls[i].out.encoded) =>
            /\ Recomputed(calls[i].batch).kind = "ok"
            /\ calls[i].out.vecs = Recomputed(calls[i].batch).vecs

\* --- decoding ----------------------------------------------------------------

\* the samples as load_stream left them
LoadedRaw == SeqLoadStream(stream, config.max_samples)

\* number of words of the samples before sample i (1-based)
RECURSIVE WordsBefore(_, _)
WordsBefore(r, i) == IF i <= 1 THEN 0 ELSE WordsBefore(r, i - 1) + r[i - 1].sentence_len

\* the label the label vocabulary gives to the highest score of a row
DecodedLabel(row) ==
    LET best == CHOOSE c \in 0..(Len(row) - 1) :
                    /\ \A j \in 1..Len(row) : row[j] <= At(row, c)
                    /\ \A j \in 0..(c - 1) : At(row, j) < At(row, c)
    IN  At(LabelVocab("seq", LoadedRaw), best)

\* every row's argmax is the gold label id of its word
OutputIsGold ==
    \A i \in 1..Len(raw) : \A k \in 1..raw[i].sentence_len :
        Argmax(At(model_output, WordsBefore(raw, i) + (k - 1))) = mtx.labels[i][k]

\* C17: after decode the i-th raw sample holds exactly sentence_len(i)
\* labels, the k-th being the inverse lookup of the argmax of the buffer's row
\* at (words of the samples before i) + k; the rows read are the first
\* (sum of all sentence_len) rows in order; nothing else of the samples
\* changes; and when every row's argmax is the gold label id of its word the
\* samples carry their original labels again.
C17_DecodeRoundTrip ==
    pc = "decoded" =>
        /\ Len(raw) = Len(LoadedRaw)
        /\ \A i \in 1..Len(raw) :
              /\ Len(raw[i].labels) = raw[i].sentence_len
              /\ [raw[i] EXCEPT !.labels = LoadedRaw[i].labels] = LoadedRaw[i]
              /\ \A k \in 1..raw[i].sentence_len :
                    raw[i].labels[k] =
                        DecodedLabel(At(model_output, WordsBefore(raw, i) + (k - 1)))
        /\ rows_read = [r \in 1..WordsBefore(raw, Len(raw) + 1) |-> r - 1]
        /\ OutputIsGold => raw = LoadedRaw

\* two samples, the second of several words under different labels, decoded
\* from a gold buffer with tied scores and a row to spare
C17_Witness ==
    /\ pc = "decoded"
    /\ Len(raw) = 2
    /\ raw[2].sentence_len = 3
    /\ raw[2].labels = <<"C", "A", "C">>
    /\ raw[1].labels = <<"B", "A">>
    /\ OutputIsGold
    /\ Len(model_output) = 6
    /\ \E r \in 1..5 : model_output[r] # OneHot(Argmax(model_output[r]), 3)

\* --- the memoized tokenizers and encoders ------------------------------------

\* what a construction asks for: a tokenizer of a model name, or an encoder of
\* a model name and a flag
RequestOf(o) ==
    IF o.class = "Embedder"
    THEN <<"encoder", o.model_name, o.randomize_embedding_weights>>
    ELSE <<"tokenizer", o.model_name>>

\* what an invocation of a loader answers
RequestServed(h) ==
    IF h.loader = "AutoTokenizer.from_pretrained" THEN <<"tokenizer", h.model_name>>
    ELSE <<"encoder", h.model_name, h.loader = "AutoModel.from_config">>

\* C19: over the constructions of one process no two invocations of a loader
\* answer the same request (a tokenizer of a model name, an encoder of a
\* model name and a flag); constructions with the same request hold the very
\* same object; and the object a construction holds was loaded for its
\* request: a pretrained request never holds the randomly initialised
\* encoder of its model name, or a random one the pretrained.
C19_LoadedOncePerKey ==
    /\ \A m, n \in 1..Len(loads) :
          RequestServed(loads[m]) = RequestServed(loads[n]) => m = n
    /\ \A i, j \in 1..Len(objects) :
          RequestOf(objects[i]) = RequestOf(objects[j]) =>
              objects[i].handle = objects[j].handle
    /\ \A i \in 1..Len(objects) :
          /\ RequestServed(objects[i].handle) = RequestOf(objects[i])
          /\ \E n \in 1..Len(loads) : loads[n] = objects[i].handle /\ loads[n].id = n

\* a random encoder, then the pretrained one of the same name, then the random
\* one again from the globals; and a tokenizer shared by the two dataset classes
C19_Witness ==
    /\ Len(objects) = 4
    /\ objects[1].class = "Embedder" /\ objects[1].randomize_embedding_weights
    /\ objects[2].class = "Embedder" /\ ~objects[2].randomize_embedding_weights
    /\ objects[2].model_name = objects[1].model_name
    /\ objects[3].class = "SequenceClassificationWithSubwords"
    /\ objects[4].class = "SentenceProberDataset"
    /\ objects[4].model_name = objects[3].model_name
    /\ objects[4].handle = objects[3].handle
    /\ Len(loads) = 3

\* --- max_samples --------------------------------------------------------------

\* the first n of the stream's non-ignored blocks, all of them when there are
\* fewer
FirstKeepable(n) ==
    SubSeq(SeqKeepable, 1, IF n < Len(SeqKeepable) THEN n ELSE Len(SeqKeepable))

\* C21: after SequenceClassificationWithSubwords.load_stream with a max_samples
\* that is not None, raw holds at most max_samples samples and they are the
\* first non-ignored blocks of the stream in input order; with max_samples
\* None, raw holds every non-ignored block in input order, a last block
\* without a blank line after it included.
C21_MaxSamplesPrefix ==
    (variant = "seq" /\ Loaded) =>
        IF config.max_samples = NoneInt
        THEN raw = SeqKeepable
        ELSE /\ Len(raw) <= config.max_samples
             /\ raw = SubSeq(SeqKeepable, 1, Len(raw))

\* the stream without the lines of a last block that no blank line follows
ClosedPart(lines) ==
    IF lines = <<>> \/ lines[Len(lines)].blank THEN lines
    ELSE LET blocks == BlocksOf(lines, 1, <<>>)
         IN  SubSeq(lines, 1, Len(lines) - Len(blocks[Len(blocks)]))

\* what holds of the same load: a positive max_samples gives exactly the
\* first max_samples non-ignored blocks, None gives all of them, and
\* max_samples = 0 gives every non-ignored block that a blank line follows
\* (the test inside the loop takes 0 for no limit, the test after the loop
\* takes it for a limit)
C21_PositiveOrNone ==
    (variant = "seq" /\ Loaded) =>
        /\ config.max_samples = NoneInt => raw = SeqKeepable
        /\ config.max_samples > 0 => raw = FirstKeepable(config.max_samples)
        /\ config.max_samples = 0 =>
              raw = SeqLoadStream(ClosedPart(stream), NoneInt)

==============================================================================
